---------------------------- MODULE Spec2Model ----------------------------
(***************************************************************************)
(* Model of src/src/meaxure/common/errorLogger.ts:                         *)
(*   - the ErrorLogger class, its global instance and the exportErrorLogs  *)
(*     command (lines 22-193);                                             *)
(*   - the process-wide SMContext and updateContext (lines 203-283).       *)
(* The two halves share no state; SpecContext and SpecLogger explore them  *)
(* separately.                                                             *)
(***************************************************************************)
EXTENDS Integers, Sequences, FiniteSets, TLC

VARIABLES
    hostCurrent,  \* NSDocumentController.sharedDocumentController().currentDocument()
    hostPage,     \* per native document: its selectedPage
    hostSel,      \* per native document: its selectedLayers, in order
    context,      \* the exported `context` (id = 0 while it is undefined)
    nextObj,      \* allocation counter: identities of the objects built with {} / new
    allocs,       \* number of initContextRunOnce calls so far
    calls,        \* number of updateContext calls so far
    hist,         \* what earlier updateContext calls did (history)
    last,         \* the latest updateContext call: inputs, outcome, state before
    logs,         \* ErrorLogger.logs
    clock,        \* the value the next `new Date()` yields
    ops,          \* number of logger commands so far
    ui,           \* sketch.UI.message calls of the latest command, in order
    attempts,     \* export attempts of the latest command, in order: the location
                  \* and whether writeToFile was reached
    lastLog       \* the latest logger command: name, inputs, result

ctxVars == <<hostCurrent, hostPage, hostSel, context, nextObj, allocs, calls, hist, last>>
logVars == <<logs, clock, ops, ui, attempts, lastLog>>
vars == <<hostCurrent, hostPage, hostSel, context, nextObj, allocs, calls, hist, last,
          logs, clock, ops, ui, attempts, lastLog>>

\* undefined / null / a falsy handle
None == "none"

-----------------------------------------------------------------------------
(* Bounds of the exploration *)

MaxCalls == 3
MaxOps == 2

-----------------------------------------------------------------------------
(* The host's object graph: documents, pages, layers with parent links.    *)
(*   D1: P1 = [G0 [L0], A1 [L2], A2 [G1 [G2 [L1]]]],  P2 = [G3 [L3]]         *)
(*   D2: P3 = [A4 [L4]],  P4 = []                                           *)

Docs == {"D1", "D2"}
DocOrNone == Docs \cup {None}

Pages == {"P1", "P2", "P3", "P4"}

PagesOf(d) == IF d = "D1" THEN {"P1", "P2"} ELSE {"P3", "P4"}

Layers == {"G0", "L0", "A1", "G1", "G2", "L1", "A2", "L2", "G3", "L3", "A4", "L4"}

\* page.layers: the top-level layers of a page, in order
PageLayers(p) ==
    CASE p = "P1" -> <<"G0", "A1", "A2">>
      [] p = "P2" -> <<"G3">>
      [] p = "P3" -> <<"A4">>
      [] OTHER    -> << >>

\* layer.type
LayerType(x) ==
    CASE x \in {"A1", "A2", "A4"}       -> "Artboard"
      [] x \in {"G0", "G1", "G2", "G3"} -> "Group"
      [] x \in {"L0", "L1", "L2", "L3", "L4"} -> "ShapePath"
      [] x \in Pages                    -> "Page"
      [] x \in Docs                     -> "Document"
      [] OTHER                          -> None

\* layer.parent: the ownership link; a document has none
Parent(x) ==
    CASE x = "L0" -> "G0"
      [] x = "L1" -> "G2"
      [] x = "G2" -> "G1"
      [] x = "G1" -> "A2"
      [] x = "L2" -> "A1"
      [] x = "L3" -> "G3"
      [] x = "L4" -> "A4"
      [] x \in {"G0", "A1", "A2"} -> "P1"
      [] x = "G3" -> "P2"
      [] x = "A4" -> "P3"
      [] x \in {"P1", "P2"} -> "D1"
      [] x \in {"P3", "P4"} -> "D2"
      [] OTHER -> None

\* the selections the user can make on a page
Selections(p) ==
    CASE p = "P1" -> { << >>, <<"L1">>, <<"L0">>, <<"L0", "L2">>, <<"A2", "L2">> }
      [] p = "P2" -> { << >>, <<"L3">> }
      [] OTHER    -> { << >> }

-----------------------------------------------------------------------------
(* SMContext and updateContext *)

\* a Context handed in by the host: absent, or an object with a document field
NoCtx == [given |-> FALSE, document |-> None]
CtxInputs == {NoCtx} \cup {[given |-> TRUE, document |-> d] : d \in DocOrNone}

\* sketch.Document.fromNative(native)
NoView == [wrapped |-> FALSE, native |-> None]
fromNative(native) == [wrapped |-> TRUE, native |-> native]

\* new ConfigsMaster(document)
NoConfigs == [id |-> 0, document |-> None]
ConfigsMaster(id, document) == [id |-> id, document |-> document]

\* new MeaxureStyles(document)
NoStyles == [built |-> FALSE, document |-> None]
MeaxureStyles(view) == [built |-> TRUE, document |-> view.native]

NoSelection == [defined |-> FALSE, layers |-> << >>]
SelectedLayers(layers) == [defined |-> TRUE, layers |-> layers]

\* `export let context: SMContext = undefined`
Undefined ==
    [id |-> 0, sketchObject |-> NoCtx, document |-> NoView, selection |-> NoSelection,
     page |-> None, artboard |-> None, configs |-> NoConfigs, meaxureStyles |-> NoStyles]

\* context = <SMContext>{}
initContextRunOnce(id) == [Undefined EXCEPT !.id = id]

\* mutant of ThrowsNotInitialized: throws whenever no handles are passed
ThrowsWithoutHandles(ctx, ctxt) == ~ctx.given

\* line 223: the guard of `throw new Error("Context not initialized")`
ThrowsNotInitialized(ctx, ctxt) == ~ctx.given /\ ctxt.id = 0

\* mutant of NeedsInit: allocates on every call that passes handles
InitOnEveryHandles(ctx, ctxt) == ctx.given

\* line 226: the guard of the one-time allocation
NeedsInit(ctx, ctxt) == ctxt.id = 0 /\ ctx.given

\* line 234: (ctx ? ctx.document : undefined) || currentDocument()
ResolveDocument(ctx, current) ==
    IF ctx.given /\ ctx.document # None THEN ctx.document ELSE current

\* line 235: notInitilized || document != context.sketchObject.document
DocumentChanged(notInitilized, document, ctxt) ==
    notInitilized \/ document # ctxt.sketchObject.document

\* mutant of AncestorWalk: looks at the direct parent only
DirectParentOnly(parent) == parent

\* lines 255-258: the walk up the ownership chain from `parent`
RECURSIVE AncestorWalk(_)
AncestorWalk(parent) ==
    IF parent # None /\ LayerType(parent) # "Artboard"
    THEN AncestorWalk(Parent(parent))
    ELSE parent

\* lines 256-258: the number of times the body of the while loop runs from `parent`
RECURSIVE WalkLength(_)
WalkLength(parent) ==
    IF parent # None /\ LayerType(parent) # "Artboard"
    THEN 1 + WalkLength(Parent(parent))
    ELSE 0

\* lines 249-263: the loop over the selected layers, from index i
RECURSIVE FromSelection(_, _)
FromSelection(layers, i) ==
    IF i > Len(layers) THEN None
    ELSE IF LayerType(layers[i]) = "Artboard" THEN layers[i]
    ELSE LET parent == AncestorWalk(Parent(layers[i]))
         IN  IF parent # None /\ LayerType(parent) = "Artboard"
             THEN parent
             ELSE FromSelection(layers, i + 1)

\* mutant of FromPage: takes the first layer whatever its type
FirstLayerOfAnyType(layers, i) == IF i > Len(layers) THEN None ELSE layers[i]

\* lines 267-272: the loop over the page's layers, from index i
RECURSIVE FromPage(_, _)
FromPage(layers, i) ==
    IF i > Len(layers) THEN None
    ELSE IF LayerType(layers[i]) = "Artboard" THEN layers[i]
    ELSE FromPage(layers, i + 1)

\* lines 246-274: currentArtboard
CurrentArtboard(selected, page) ==
    LET fromSel == IF Len(selected) > 0 THEN FromSelection(selected, 1) ELSE None
    IN  IF fromSel = None /\ Len(PageLayers(page)) > 0
        THEN FromPage(PageLayers(page), 1)
        ELSE fromSel

\* lines 242-277: the properties that are always updated; the typed view reads
\* the selected page and layers of the native document it wraps
Navigate(ctxt) ==
    LET native   == ctxt.document.native
        page     == hostPage[native]
        selected == hostSel[native]
    IN  [ctxt EXCEPT !.page = page,
                     !.artboard = CurrentArtboard(selected, page),
                     !.selection = SelectedLayers(selected),
                     !.meaxureStyles = MeaxureStyles(ctxt.document)]

NoHist == [hasOk |-> FALSE, resolved |-> None, okWithHandles |-> FALSE,
           notInitialized |-> FALSE]

NoCall == [op |-> "none", ctx |-> NoCtx, error |-> "none", resolved |-> None,
           returned |-> 0, before |-> Undefined, prev |-> NoHist]

\* updateContext(ctx), lines 222-279
updateContext(ctx) ==
    /\ calls < MaxCalls
    /\ calls' = calls + 1
    /\ UNCHANGED <<hostCurrent, hostPage, hostSel>>
    /\ IF ThrowsNotInitialized(ctx, context)
       THEN /\ last' = [op |-> "updateContext", ctx |-> ctx, error |-> "NotInitialized",
                        resolved |-> None, returned |-> 0, before |-> context,
                        prev |-> hist]
            /\ hist' = [hist EXCEPT !.notInitialized = TRUE]
            /\ UNCHANGED <<context, nextObj, allocs>>
       ELSE LET notInitilized == context.id = 0
                init     == NeedsInit(ctx, context)
                c0       == IF init THEN initContextRunOnce(nextObj) ELSE context
                n0       == IF init THEN nextObj + 1 ELSE nextObj
                c1       == IF ctx.given THEN [c0 EXCEPT !.sketchObject = ctx] ELSE c0
                document == ResolveDocument(ctx, hostCurrent)
                changed  == DocumentChanged(notInitilized, document, c1)
                c2       == IF changed
                            THEN [c1 EXCEPT !.sketchObject.document = document,
                                            !.document = fromNative(document),
                                            !.configs = ConfigsMaster(n0, document)]
                            ELSE c1
                n1       == IF changed THEN n0 + 1 ELSE n0
                \* the typed view wraps no native document: reading its selected
                \* page and layers fails
                broken   == document # None /\ c2.document.native = None
                c3       == IF document # None /\ ~broken THEN Navigate(c2) ELSE c2
            IN  /\ context' = c3
                /\ nextObj' = n1
                /\ allocs' = IF init THEN allocs + 1 ELSE allocs
                /\ last' = [op |-> "updateContext", ctx |-> ctx,
                            error |-> IF broken THEN "TypeError" ELSE "none",
                            resolved |-> document,
                            returned |-> IF broken THEN 0 ELSE c3.id,
                            before |-> context, prev |-> hist]
                /\ hist' = IF broken THEN hist
                           ELSE [hist EXCEPT !.hasOk = TRUE, !.resolved = document,
                                             !.okWithHandles = @ \/ ctx.given]

\* a command starts: the host hands in its handles, or none
Refresh == \E ctx \in CtxInputs : updateContext(ctx) /\ UNCHANGED logVars

\* the user opens, closes or switches the active document
HostActivate ==
    /\ \E d \in DocOrNone : d # hostCurrent /\ hostCurrent' = d
    /\ UNCHANGED <<hostPage, hostSel, context, nextObj, allocs, calls, hist, last>>
    /\ UNCHANGED logVars

\* the user selects another page of a document (its selection is then empty)
HostSelectPage ==
    /\ \E d \in Docs : \E p \in PagesOf(d) :
          /\ p # hostPage[d]
          /\ hostPage' = [hostPage EXCEPT ![d] = p]
          /\ hostSel' = [hostSel EXCEPT ![d] = << >>]
    /\ UNCHANGED <<hostCurrent, context, nextObj, allocs, calls, hist, last>>
    /\ UNCHANGED logVars

\* the user changes the layer selection on the selected page of a document
HostSelectLayers ==
    /\ \E d \in Docs : \E s \in Selections(hostPage[d]) :
          /\ s # hostSel[d]
          /\ hostSel' = [hostSel EXCEPT ![d] = s]
    /\ UNCHANGED <<hostCurrent, hostPage, context, nextObj, allocs, calls, hist, last>>
    /\ UNCHANGED logVars




-----------------------------------------------------------------------------
(* ErrorLogger *)

\* private maxLogs = 1000
maxLogs == 1000

Levels == {"ERROR", "WARN", "INFO"}

\* an Error object handed to log/error, or none
NoError == [given |-> FALSE, message |-> None, stack |-> None]
AnError == [given |-> TRUE, message |-> "boom", stack |-> "at f (plugin.js)"]
ErrorInputs == {NoError, AnError}

\* lines 27-35: the entry built by log
Entry(now, level, message, details, layerName, artboardName, error) ==
    [timestamp |-> now, level |-> level, message |-> message, details |-> details,
     layerName |-> layerName, artboardName |-> artboardName,
     stackTrace |-> IF error.given THEN error.stack ELSE None]

\* mutant of SliceLast: slice(0, n), which keeps the oldest entries
SliceFirst(s, n) == IF Len(s) <= n THEN s ELSE SubSeq(s, 1, n)

\* Array.prototype.slice(-n)
SliceLast(s, n) == IF Len(s) <= n THEN s ELSE SubSeq(s, Len(s) - n + 1, Len(s))

\* mutant of Push: the buffer is never trimmed
PushUntrimmed(buf, entry) == Append(buf, entry)

\* lines 37-42: push, then keep only the last maxLogs entries
Push(buf, entry) ==
    LET pushed == Append(buf, entry)
    IN  IF Len(pushed) > maxLogs THEN SliceLast(pushed, maxLogs) ELSE pushed

\* log(...), lines 26-58, on the buffer `buf` at time `now`
LogTo(buf, now, level, message, details, layerName, artboardName, error) ==
    Push(buf, Entry(now, level, message, details, layerName, artboardName, error))

\* getLogCount / getErrorCount / getWarningCount, lines 160-170
CountLevel(buf, level) == Cardinality({i \in 1..Len(buf) : buf[i].level = level})

getLogCount(buf) == Len(buf)
getErrorCount(buf) == CountLevel(buf, "ERROR")
getWarningCount(buf) == CountLevel(buf, "WARN")

\* what the filesystem does to one export attempt
WriteOutcomes == {"ok", "writeFalse", "throwResolve", "throwCompose", "throwWrite"}

Message(kind, where, n, e, w) ==
    [kind |-> kind, where |-> where, logCount |-> n, errorCount |-> e, warningCount |-> w]

\* mutant of ExportSucceeded: the success is reported but not logged
ExportSucceededUnlogged(where, st) ==
    [logs |-> st.logs,
     clock |-> st.clock,
     ui |-> Append(st.ui, Message("exported", where, 0, 0, 0)),
     attempts |-> st.attempts, returned |-> TRUE, threw |-> FALSE]

\* lines 106-109: the write returned true
ExportSucceeded(where, st) ==
    [logs |-> LogTo(st.logs, st.clock, "INFO", "Logs exported successfully",
                    "File: filename", None, None, NoError),
     clock |-> st.clock + 1,
     ui |-> Append(st.ui, Message("exported", where, 0, 0, 0)),
     attempts |-> st.attempts, returned |-> TRUE, threw |-> FALSE]

\* lines 110-113: the write returned false
ExportWriteFailed(where, st) ==
    [logs |-> LogTo(st.logs, st.clock, "ERROR", "Failed to export logs",
                    "File write operation failed", None, None, NoError),
     clock |-> st.clock + 1,
     ui |-> st.ui,
     attempts |-> st.attempts, returned |-> FALSE, threw |-> FALSE]

\* mutant of ExportCaught: no catch block, the exception leaves the method
ExportUncaught(where, st) ==
    [logs |-> st.logs, clock |-> st.clock, ui |-> st.ui,
     attempts |-> st.attempts, returned |-> FALSE, threw |-> TRUE]

\* lines 114-118: something in the try block threw
ExportCaught(where, st) ==
    [logs |-> LogTo(st.logs, st.clock, "ERROR", "Exception during log export",
                    AnError.message, None, None, AnError),
     clock |-> st.clock + 1,
     ui |-> Append(st.ui, Message("failedCheckConsole", None, 0, 0, 0)),
     attempts |-> st.attempts, returned |-> FALSE, threw |-> FALSE]

\* exportLogsToDesktop / exportLogsToDocuments, lines 87-153: the two differ in the
\* directory only. `st` carries logs, clock, ui, attempts; the result adds `returned`
\* and `threw` (an exception left the method).
ExportTo(where, st, outcome) ==
    LET wrote == outcome \in {"ok", "writeFalse", "throwWrite"}
        st1   == [st EXCEPT !.attempts = Append(@, [where |-> where, wrote |-> wrote])]
    IN  CASE outcome = "ok"         -> ExportSucceeded(where, st1)
          [] outcome = "writeFalse" -> ExportWriteFailed(where, st1)
          [] OTHER                  -> ExportCaught(where, st1)

\* what a command hands back to its caller
Returned(r, value) == IF r.threw THEN "threw" ELSE value

NoCommand == [op |-> "none", level |-> None, error |-> NoError,
              outcomes |-> << >>, returned |-> "undefined"]

Command(op, level, error, outcomes, returned) ==
    [op |-> op, level |-> level, error |-> error, outcomes |-> outcomes,
     returned |-> returned]

Bool(b) == IF b THEN "true" ELSE "false"

\* one call of log/error/warn/info from plugin code
Record(op, level, error) ==
    /\ ops < MaxOps
    /\ ops' = ops + 1
    /\ logs' = LogTo(logs, clock, level, "msg", None, None, None, error)
    /\ clock' = clock + 1
    /\ ui' = << >>
    /\ attempts' = << >>
    /\ lastLog' = Command(op, level, error, << >>, "undefined")
    /\ UNCHANGED ctxVars

\* errorLogger.log(level, ..., error?)
Log == \E level \in Levels, error \in ErrorInputs : Record("log", level, error)

\* errorLogger.error(..., error?), lines 60-62
Error == \E error \in ErrorInputs : Record("error", "ERROR", error)

\* mutant of Warn: warn forwards an Error object to log
WarnWithError == Record("warn", "WARN", AnError)

\* errorLogger.warn(...), lines 64-66
Warn == Record("warn", "WARN", NoError)

\* errorLogger.info(...), lines 68-70
Info == Record("info", "INFO", NoError)

\* mutant of Clear: the buffer is not emptied before the INFO entry is logged
ClearKeepsEntries ==
    /\ ops < MaxOps
    /\ ops' = ops + 1
    /\ logs' = LogTo(logs, clock, "INFO", "Error logs cleared", None, None, None, NoError)
    /\ clock' = clock + 1
    /\ ui' = << >>
    /\ attempts' = << >>
    /\ lastLog' = Command("clear", None, NoError, << >>, "undefined")
    /\ UNCHANGED ctxVars

\* mutant of Clear: the buffer is emptied and the audit entry is not recorded
ClearWithoutAudit ==
    /\ ops < MaxOps
    /\ ops' = ops + 1
    /\ logs' = << >>
    /\ clock' = clock + 1
    /\ ui' = << >>
    /\ attempts' = << >>
    /\ lastLog' = Command("clear", None, NoError, << >>, "undefined")
    /\ UNCHANGED ctxVars

\* errorLogger.clear(), lines 155-158
Clear ==
    /\ ops < MaxOps
    /\ ops' = ops + 1
    /\ logs' = LogTo(<< >>, clock, "INFO", "Error logs cleared", None, None, None, NoError)
    /\ clock' = clock + 1
    /\ ui' = << >>
    /\ attempts' = << >>
    /\ lastLog' = Command("clear", None, NoError, << >>, "undefined")
    /\ UNCHANGED ctxVars

\* one direct call of exportLogsToDesktop / exportLogsToDocuments
ExportCall(op, where) ==
    /\ ops < MaxOps
    /\ ops' = ops + 1
    /\ \E outcome \in WriteOutcomes :
          LET r == ExportTo(where, [logs |-> logs, clock |-> clock, ui |-> << >>,
                                    attempts |-> << >>], outcome)
          IN  /\ logs' = r.logs
              /\ clock' = r.clock
              /\ ui' = r.ui
              /\ attempts' = r.attempts
              /\ lastLog' = Command(op, None, NoError, <<outcome>>,
                                    Returned(r, Bool(r.returned)))
    /\ UNCHANGED ctxVars

ExportLogsToDesktop == ExportCall("exportLogsToDesktop", "Desktop")

ExportLogsToDocuments == ExportCall("exportLogsToDocuments", "Documents")

\* mutant of NothingToExport: the empty buffer is exported like any other
AlwaysSomethingToExport(buf) == FALSE

\* line 179: logCount === 0
NothingToExport(buf) == getLogCount(buf) = 0

\* mutant of FallsBack: the second location is tried whatever the first returned
AlwaysFallsBack(r1) == TRUE

\* line 190: !errorLogger.exportLogsToDesktop()
FallsBack(r1) == ~r1.returned

\* exportErrorLogs(), lines 177-193
ExportErrorLogs ==
    /\ ops < MaxOps
    /\ ops' = ops + 1
    /\ IF NothingToExport(logs)
       THEN /\ ui' = <<Message("noLogs", None, 0, 0, 0)>>
            /\ attempts' = << >>
            /\ lastLog' = Command("exportErrorLogs", None, NoError, << >>, "undefined")
            /\ UNCHANGED <<logs, clock>>
       ELSE \E o1 \in WriteOutcomes, o2 \in WriteOutcomes :
              LET start == [logs |-> logs, clock |-> clock, ui |-> << >>,
                            attempts |-> << >>]
                  r1 == ExportTo("Desktop", start, o1)
                  second == ~r1.threw /\ FallsBack(r1)
                  r2 == IF second THEN ExportTo("Documents", r1, o2) ELSE r1
              IN  /\ (~second => o2 = "ok")
                  /\ logs' = r2.logs
                  /\ clock' = r2.clock
                  /\ ui' = <<Message("exporting", None, getLogCount(logs),
                                     getErrorCount(logs), getWarningCount(logs))>> \o r2.ui
                  /\ attempts' = r2.attempts
                  /\ lastLog' = Command("exportErrorLogs", None, NoError,
                                        IF second THEN <<o1, o2>> ELSE <<o1>>,
                                        Returned(r2, "undefined"))
    /\ UNCHANGED ctxVars

\* the buffer after n earlier log calls, at times 1..n, levels in rotation
Prefill(n) ==
    [i \in 1..n |->
        Entry(i, CASE i % 3 = 1 -> "ERROR" [] i % 3 = 2 -> "WARN" [] OTHER -> "INFO",
              "msg", None, None, None, NoError)]

\* buffer sizes the exploration starts from: empty, and around the capacity
InitLens == {0, 1, maxLogs - 1, maxLogs}

\* the logger after the n log calls of Prefill; the context is not yet in use
InitLogger ==
    /\ \E n \in InitLens : logs = Prefill(n) /\ clock = n + 1
    /\ ops = 0
    /\ ui = << >>
    /\ attempts = << >>
    /\ lastLog = NoCommand
    /\ hostCurrent = None
    /\ hostPage = [d \in Docs |-> IF d = "D1" THEN "P1" ELSE "P3"]
    /\ hostSel = [d \in Docs |-> << >>]
    /\ context = Undefined
    /\ nextObj = 1
    /\ allocs = 0
    /\ calls = 0
    /\ hist = NoHist
    /\ last = NoCall

-----------------------------------------------------------------------------
(* Specifications *)

\* the plugin is loaded: no command has run; some document may be open
InitContext ==
    /\ hostCurrent \in DocOrNone
    /\ hostPage = [d \in Docs |-> IF d = "D1" THEN "P1" ELSE "P3"]
    /\ hostSel = [d \in Docs |-> << >>]
    /\ context = Undefined
    /\ nextObj = 1
    /\ allocs = 0
    /\ calls = 0
    /\ hist = NoHist
    /\ last = NoCall
    /\ logs = << >>
    /\ clock = 1
    /\ ops = 0
    /\ ui = << >>
    /\ attempts = << >>
    /\ lastLog = NoCommand

NextContext == Refresh \/ HostActivate \/ HostSelectPage \/ HostSelectLayers

NextLogger ==
    \/ Log \/ Error \/ Warn \/ Info \/ Clear
    \/ ExportLogsToDesktop \/ ExportLogsToDocuments \/ ExportErrorLogs

SpecContext == InitContext /\ [][NextContext]_vars

SpecLogger == InitLogger /\ [][NextLogger]_vars

-----------------------------------------------------------------------------
(* Properties of updateContext *)

\* the latest updateContext call returned normally
Refreshed == last.op = "updateContext" /\ last.error = "none"

SetMin(S) == CHOOSE x \in S : \A y \in S : x <= y

\* a layer followed by its owners, nearest first
RECURSIVE OwnershipChain(_)
OwnershipChain(x) == IF x = None THEN << >> ELSE <<x>> \o OwnershipChain(Parent(x))

\* the first artboard-typed element of a sequence of layers, if any
FirstArtboardIn(layers) ==
    LET hits == {i \in 1..Len(layers) : LayerType(layers[i]) = "Artboard"}
    IN  IF hits = {} THEN None ELSE layers[SetMin(hits)]

\* the layer itself if it is an artboard, otherwise its nearest artboard ancestor
EnclosingArtboard(layer) == FirstArtboardIn(OwnershipChain(layer))

\* C1: a successful refresh that resolves the same document as the successful
\* refresh before it leaves context.configs the identical instance.
C1_ConfigsKeptForSameDocument ==
    (Refreshed /\ last.prev.hasOk /\ last.resolved = last.prev.resolved)
        => context.configs = last.before.configs

\* C2: a successful refresh that resolves another document than the successful
\* refresh before it builds a new configs instance against the resolved document.
C2_ConfigsRebuiltForNewDocument ==
    (Refreshed /\ last.prev.hasOk /\ last.resolved # last.prev.resolved)
        => /\ context.configs.id # last.before.configs.id
           /\ context.configs.document = last.resolved

\* C3: when a successful refresh that resolves a present document D returns, the
\* typed view wraps D and page and selection are D's selected page and layers.
C3_ViewPageSelectionOfResolved ==
    [][(calls' = calls + 1 /\ last'.error = "none" /\ last'.resolved # None)
          => /\ context'.document = fromNative(last'.resolved)
             /\ context'.page = hostPage'[last'.resolved]
             /\ context'.selection = SelectedLayers(hostSel'[last'.resolved])]_vars

\* C4: after a refresh for which the host reports no document (and which is not
\* the not-initialized failure of C5), no failure was raised and page, artboard,
\* selection and configs are unset.
C4_NoDocumentLeavesFieldsUnset ==
    (last.op = "updateContext" /\ last.resolved = None
        /\ (last.ctx.given \/ last.before.id # 0))
        => /\ last.error = "none"
           /\ context.page = None
           /\ context.artboard = None
           /\ context.selection = NoSelection
           /\ context.configs = NoConfigs

\* C5: a refresh without handles on the never-initialized context fails with the
\* not-initialized error and leaves the context undefined; after a refresh with
\* handles has succeeded no refresh raises that error.
C5_NotInitializedOnlyBeforeInit ==
    /\ (last.op = "updateContext" /\ ~last.ctx.given /\ last.before.id = 0)
          => (last.error = "NotInitialized" /\ context = Undefined)
    /\ (last.op = "updateContext" /\ last.prev.okWithHandles)
          => last.error # "NotInitialized"

\* an early refresh without handles threw, a refresh with handles succeeded, and
\* the latest refresh, again without handles, returned normally
C5_Witness ==
    /\ hist.notInitialized
    /\ last.prev.okWithHandles
    /\ ~last.ctx.given
    /\ Refreshed

\* C6: the context object is allocated at most once, and every successful refresh
\* returns the object allocated by the first one.
C6_SingleContextObject ==
    /\ allocs <= 1
    /\ Refreshed => /\ allocs = 1
                    /\ context.id # 0
                    /\ last.returned = context.id
                    /\ (last.before.id # 0 => last.returned = last.before.id)

\* a later refresh returned the existing object after rebuilding configs in it
C6_Witness ==
    /\ Refreshed
    /\ last.before.id # 0
    /\ last.returned = last.before.id
    /\ context.configs # last.before.configs

\* C7: after a refresh with a document whose selection holds a layer that is an
\* artboard or has an artboard ancestor, the artboard is that of the first such
\* layer in selection order.
C7_ArtboardFromSelection ==
    (Refreshed /\ last.resolved # None) =>
        LET sel  == context.selection.layers
            hits == {i \in 1..Len(sel) : EnclosingArtboard(sel[i]) # None}
        IN  hits # {} => context.artboard = EnclosingArtboard(sel[SetMin(hits)])

\* the selected layer sits three levels inside A2, which is not the first
\* artboard of the page
C7_Witness ==
    /\ Refreshed
    /\ context.selection.layers = <<"L1">>
    /\ context.artboard = "A2"
    /\ FirstArtboardIn(PageLayers(context.page)) = "A1"

\* C8: after a refresh with a document whose selection is empty or holds no layer
\* with an artboard, the artboard is the first artboard-typed top-level layer of
\* the page, or unset when the page has none.
C8_ArtboardFromPage ==
    (Refreshed /\ last.resolved # None) =>
        LET sel == context.selection.layers
        IN  (\A i \in 1..Len(sel) : EnclosingArtboard(sel[i]) = None)
                => context.artboard = FirstArtboardIn(PageLayers(context.page))

\* a page of loose layers only: the artboard of the refresh before is dropped
C8_Witness ==
    /\ Refreshed
    /\ last.resolved # None
    /\ last.before.artboard # None
    /\ Len(PageLayers(context.page)) > 0
    /\ context.artboard = None

\* C19: on the host's finite, acyclic layer graph the ancestor walk of every
\* selected layer ends, after fewer steps than its ownership chain is long, at an
\* artboard that owns the layer or at the exhausted chain.
C19_AncestorWalkEnds ==
    (Refreshed /\ last.resolved # None) =>
        \A i \in 1..Len(context.selection.layers) :
            LET layer == context.selection.layers[i]
                chain == OwnershipChain(layer)
                found == AncestorWalk(Parent(layer))
            IN  /\ WalkLength(Parent(layer)) < Len(chain)
                /\ \/ found = None
                   \/ /\ LayerType(found) = "Artboard"
                      /\ \E k \in 2..Len(chain) : chain[k] = found

\* the walk from L0 ran off the top of its chain (group, page, document) and the
\* walk from L2 stopped at the artboard A1
C19_Witness ==
    /\ Refreshed
    /\ context.selection.layers = <<"L0", "L2">>
    /\ WalkLength(Parent("L0")) = 3
    /\ AncestorWalk(Parent("L0")) = None
    /\ context.artboard = "A1"

-----------------------------------------------------------------------------
(* Properties of ErrorLogger *)

RecordOps == {"log", "error", "warn", "info"}

\* C9: the buffer never holds more than maxLogs entries.
C9_BufferBounded == Len(logs) <= maxLogs

\* the buffer is full and its oldest entry has been evicted
C9_Witness ==
    /\ lastLog.op # "none"
    /\ Len(logs) = maxLogs
    /\ logs[1].timestamp > 1

\* C10: a log call appends its entry last and keeps the last min(maxLogs, n + 1)
\* of the n earlier entries plus the new one, in order and unchanged.
C10_LogIsFifoAppend ==
    [][lastLog'.op \in RecordOps =>
          LET n == Len(logs)
              m == Len(logs')
          IN  /\ m = (IF n + 1 < maxLogs THEN n + 1 ELSE maxLogs)
              /\ logs'[m].timestamp = clock
              /\ logs'[m].level = lastLog'.level
              /\ logs'[m].message = "msg"
              /\ logs'[m].stackTrace = lastLog'.error.stack
              /\ \A i \in 1..(m - 1) : logs'[i] = logs[i + (n + 1 - m)]
              /\ lastLog'.returned = "undefined"]_vars

\* a log call on the full buffer: the entry of time 1 is gone, that of time 2 is
\* now the oldest, and the new entry is last
C10_Witness ==
    /\ lastLog.op \in RecordOps
    /\ Len(logs) = maxLogs
    /\ logs[1].timestamp = 2
    /\ logs[maxLogs].timestamp = maxLogs + 1

\* the entries of a buffer that have the given level, in order
OfLevel(buf, level) == SelectSeq(buf, LAMBDA e : e.level = level)

\* C11: right after clear() the buffer holds one INFO entry recording the clear and
\* the error and warning counts are 0; in every state the two counts are the
\* numbers of ERROR and WARN entries now in the buffer.
C11_ClearLeavesOneInfoEntry ==
    /\ lastLog.op = "clear" =>
          /\ getLogCount(logs) = 1
          /\ logs[1].level = "INFO"
          /\ logs[1].message = "Error logs cleared"
          /\ getErrorCount(logs) = 0
          /\ getWarningCount(logs) = 0
    /\ getErrorCount(logs) = Len(OfLevel(logs, "ERROR"))
    /\ getWarningCount(logs) = Len(OfLevel(logs, "WARN"))

\* clear() on a full buffer that held errors and warnings
C11_Witness ==
    /\ lastLog.op = "clear"
    /\ Len(logs) = 1
    /\ logs[1].timestamp > maxLogs

\* C12: the export command on an empty buffer makes no export attempt at either
\* location, shows the nothing-to-export message only, and leaves the buffer empty.
C12_EmptyExportTouchesNothing ==
    [][(lastLog'.op = "exportErrorLogs" /\ Len(logs) = 0)
          => /\ attempts' = << >>
             /\ ui' = <<Message("noLogs", None, 0, 0, 0)>>
             /\ logs' = << >>]_vars

\* the command has run on the empty buffer
C12_Witness ==
    /\ lastLog.op = "exportErrorLogs"
    /\ Len(logs) = 0
    /\ Len(ui) = 1
    /\ ui[1].kind = "noLogs"

DirectExportOps == {"exportLogsToDesktop", "exportLogsToDocuments"}
ExportOps == DirectExportOps \cup {"exportErrorLogs"}

\* the latest export command ended with a write that succeeded
EndedInSuccess(cmd) ==
    /\ cmd.op \in ExportOps
    /\ Len(cmd.outcomes) > 0
    /\ cmd.outcomes[Len(cmd.outcomes)] = "ok"

\* what a step whose export succeeded at a location shows and logs: one success
\* message naming the file at that location, and one INFO entry, appended last
SuccessShownAndLogged ==
    LET new  == SelectSeq(logs', LAMBDA e : e.timestamp >= clock)
        done == SelectSeq(ui', LAMBDA m : m.kind = "exported")
    IN  /\ Len(done) = 1
        /\ done[1].where = attempts'[Len(attempts')].where
        /\ Len(OfLevel(new, "INFO")) = 1
        /\ new[Len(new)].level = "INFO"
        /\ new[Len(new)].message = "Logs exported successfully"

\* C13 as stated: when a write succeeds at a location the user sees the success
\* message, one INFO entry is appended and the export call returns success.
C13_SuccessReturnsSuccess ==
    [][EndedInSuccess(lastLog')
          => (SuccessShownAndLogged /\ lastLog'.returned = "true")]_vars

\* C13 as amended: the same message and INFO entry; exportLogsToDesktop and
\* exportLogsToDocuments return true, the exportErrorLogs command returns no value.
C13_SuccessShownLoggedAndReturned ==
    [][EndedInSuccess(lastLog')
          => /\ SuccessShownAndLogged
             /\ lastLog'.op \in DirectExportOps => lastLog'.returned = "true"
             /\ lastLog'.op = "exportErrorLogs" => lastLog'.returned = "undefined"]_vars

\* the command failed at the Desktop and then succeeded at Documents
C13_Witness ==
    /\ lastLog.op = "exportErrorLogs"
    /\ Len(lastLog.outcomes) = 2
    /\ lastLog.outcomes[2] = "ok"
    /\ ui[Len(ui)] = Message("exported", "Documents", 0, 0, 0)
    /\ logs[Len(logs)].message = "Logs exported successfully"

\* the attempts of an export command that failed, in either way
Failures(cmd) == SelectSeq(cmd.outcomes, LAMBDA o : o # "ok")

\* C14: for every failed export attempt, whether the write returned false or an
\* exception was caught, one ERROR entry is appended and the user is shown the
\* check-console failure message.
C14_EveryFailureLoggedAndShown ==
    [][lastLog'.op \in ExportOps
          => LET new    == SelectSeq(logs', LAMBDA e : e.timestamp >= clock)
                 failed == SelectSeq(ui', LAMBDA m : m.kind = "failedCheckConsole")
             IN  /\ Len(OfLevel(new, "ERROR")) = Len(Failures(lastLog'))
                 /\ Len(failed) = Len(Failures(lastLog'))]_vars

\* the export command tried both locations and failed at both
BothFailed(cmd) ==
    /\ cmd.op = "exportErrorLogs"
    /\ Len(cmd.outcomes) = 2
    /\ Len(Failures(cmd)) = 2

\* C15: when both attempts fail the user is told that the export failed and every
\* entry that was in the buffer is still there, in the same order.
C15_FailedExportKeepsBuffer ==
    [][BothFailed(lastLog')
          => /\ \E i \in 1..Len(ui') : ui'[i].kind = "failedCheckConsole"
             /\ Len(logs') >= Len(logs)
             /\ SubSeq(logs', 1, Len(logs)) = logs]_vars

\* C15, the buffer half alone, from the full buffer
C15_FullBufferKeptOnFailure ==
    [][(BothFailed(lastLog') /\ Len(logs) = maxLogs)
          => \E k \in 1..Len(logs') : logs'[k] = logs[1]]_vars

\* C16 as stated: every entry of the buffer that carries a stackTrace has level
\* ERROR, whatever public operations were called.
C16_StackTraceOnlyOnErrors ==
    \A i \in 1..Len(logs) : logs[i].stackTrace # None => logs[i].level = "ERROR"

\* C16 as amended: no operation other than a direct call of log appends an entry
\* that carries a stackTrace at a level other than ERROR.
C16_OnlyLogAttachesElsewhere ==
    [][lastLog'.op # "log"
          => \A i \in 1..Len(logs') :
                (logs'[i].timestamp >= clock /\ logs'[i].stackTrace # None)
                    => logs'[i].level = "ERROR"]_vars

\* error(..., error) has appended an ERROR entry with the stack of its error
C16_Witness ==
    /\ lastLog.op = "error"
    /\ lastLog.error.given
    /\ logs[Len(logs)].level = "ERROR"
    /\ logs[Len(logs)].stackTrace = AnError.stack

Throws == {"throwResolve", "throwCompose", "throwWrite"}

\* C17: whichever of path resolution, path composition and the write throws, the
\* export methods return (false) and the export command returns, after going on
\* to the second location when the throw was at the first.
C17_ExportExceptionsContained ==
    lastLog.op \in ExportOps
        => /\ lastLog.returned \in {"true", "false", "undefined"}
           /\ (lastLog.op \in DirectExportOps /\ lastLog.outcomes[1] \in Throws)
                 => lastLog.returned = "false"
           /\ (lastLog.op = "exportErrorLogs" /\ Len(lastLog.outcomes) > 0
                 /\ lastLog.outcomes[1] \in Throws)
                 => (Len(lastLog.outcomes) = 2 /\ Len(attempts) = 2)

\* the command met a throw in path composition at the Desktop and a throw in the
\* write at Documents, and returned
C17_Witness ==
    /\ lastLog.op = "exportErrorLogs"
    /\ lastLog.outcomes = <<"throwCompose", "throwWrite">>
    /\ lastLog.returned = "undefined"
    /\ logs[Len(logs)].message = "Exception during log export"

\* C18: one run of the export command on a non-empty buffer tries the Desktop
\* first, tries Documents exactly when the Desktop attempt failed, tries each
\* location at most once and nothing after Documents.
C18_AttemptsOrderedAndBounded ==
    [][(lastLog'.op = "exportErrorLogs" /\ Len(logs) > 0)
          => LET new == SelectSeq(logs', LAMBDA e : e.timestamp >= clock)
                 n   == Len(attempts')
             IN  /\ n \in {1, 2}
                 /\ Len(new) = n
                 /\ attempts'[1].where = "Desktop"
                 /\ (n = 2) = (new[1].level = "ERROR")
                 /\ n = 2 => attempts'[2].where = "Documents"]_vars

\* the Desktop attempt threw before any write, the Documents attempt wrote the file
C18_Witness ==
    /\ lastLog.op = "exportErrorLogs"
    /\ attempts = << [where |-> "Desktop", wrote |-> FALSE],
                     [where |-> "Documents", wrote |-> TRUE] >>
    /\ logs[Len(logs)].message = "Logs exported successfully"


\* C20: a non-empty buffer never becomes empty again; every record and every clear
\* leaves it non-empty; and exportErrorLogs on a non-empty buffer never reports
\* that there is nothing to export but makes its attempt at the Desktop, which
\* reaches the write unless resolving the path or composing the text threw.
C20_NeverEmptyAgain ==
    [][/\ Len(logs) > 0 => Len(logs') > 0
       /\ lastLog'.op \in RecordOps \cup {"clear"} => Len(logs') > 0
       /\ (lastLog'.op = "exportErrorLogs" /\ Len(logs) > 0)
             => /\ \A k \in 1..Len(ui') : ui'[k].kind # "noLogs"
                /\ Len(attempts') >= 1
                /\ attempts'[1].where = "Desktop"
                /\ \/ attempts'[1].wrote
                   \/ lastLog'.outcomes[1] \in {"throwResolve", "throwCompose"}]_vars

\* exportErrorLogs right after a clear: the audit entry is what gets written
C20_Witness ==
    /\ lastLog.op = "exportErrorLogs"
    /\ Len(logs) = 2
    /\ logs[1].message = "Error logs cleared"
    /\ attempts = << [where |-> "Desktop", wrote |-> TRUE] >>

=============================================================================
